---------------------------- MODULE Spec2Model ----------------------------
(***************************************************************************)
(* Govee Life climate platform (custom_components/goveelife/climate.py):   *)
(* platform setup, the capability parser (_init_platform_specific), the    *)
(* read properties and the write operations of GoveeLifeClimate.           *)
(*                                                                         *)
(* Python values are modelled as follows.                                  *)
(*   dict (insertion ordered)  a sequence of [k |-> key, v |-> value]      *)
(*   d[key] on a missing key   KeyError: the enclosing operation raises    *)
(*   None / a value x          the sequences << >> and << x >>             *)
(*   float(x)                  [float |-> x]                               *)
(***************************************************************************)
EXTENDS Integers, Sequences, FiniteSets, TLC

VARIABLES
    store_ok,      \* hass.data[DOMAIN][entry_id][CONF_DEVICES] can be read
    api_devices,   \* the device list of the data store
    coordinators,  \* keys of entry_data[CONF_COORDINATORS]
    pc,            \* position of async_setup_entry
    idx,           \* index of the for loop of async_setup_entry
    entities,      \* the local list `entities` of async_setup_entry
    added,         \* the lists handed to async_add_entities, in call order
    cls,           \* class attributes of GoveeLifeClimate (shared by instances)
    builds,        \* one record per run of _init_platform_specific
    snapshot,      \* cached state, read by GoveeAPI_GetCachedStateValue
    call,          \* the write operation in progress on the entity, if any
    requests,      \* commands handed to async_GoveeAPI_ControlDevice
    notified,      \* number of async_write_ha_state calls
    observed       \* what the host last read from the entity's properties

vars == << store_ok, api_devices, coordinators, pc, idx, entities, added,
           cls, builds, snapshot, call, requests, notified, observed >>

setup_vars == << store_ok, api_devices, coordinators, pc, idx, entities,
                 added, cls, builds >>

ops_vars == << snapshot, call, requests, notified, observed >>

-----------------------------------------------------------------------------
(* Bounds of the model *)

MaxDevices == 2

MaxTemperature == 1

-----------------------------------------------------------------------------
(* Python values *)

None == << >>

Some(x) == << x >>

\* dict.get(key, default) on a record-shaped dict
Get(rec, key, default) == IF key \in DOMAIN rec THEN rec[key] ELSE default

RECURSIVE DictIndex(_, _, _)
DictIndex(d, key, i) ==
    IF i > Len(d) THEN 0
    ELSE IF d[i].k = key THEN i
    ELSE DictIndex(d, key, i + 1)

DictHas(d, key) == DictIndex(d, key, 1) # 0

DictGet(d, key) == d[DictIndex(d, key, 1)].v

\* d[key] = value: an existing key keeps its position, a new key goes last
DictSet(d, key, value) ==
    IF DictHas(d, key)
    THEN [d EXCEPT ![DictIndex(d, key, 1)] = [k |-> key, v |-> value]]
    ELSE Append(d, [k |-> key, v |-> value])

DictKeys(d) == { d[i].k : i \in 1..Len(d) }

SeqSet(s) == { s[i] : i \in 1..Len(s) }

float(x) == [float |-> x]

OFF == "off"

HEAT_COOL == "heat_cool"

PLATFORM_DEVICE_TYPES == { "devices.types.heater", "devices.types.kettle" }

\* str.upper() on the unit strings the model uses
upper(s) ==
    CASE s \in { "Celsius", "celsius", "CELSIUS" } -> "CELSIUS"
      [] s \in { "Fahrenheit", "fahrenheit", "FAHRENHEIT" } -> "FAHRENHEIT"
      [] OTHER -> s

\* names of the UnitOfTemperature enum (UnitOfTemperature[name])
UnitNames == { "CELSIUS", "FAHRENHEIT", "KELVIN" }

UnitOfTemperature(name) ==
    CASE name = "CELSIUS" -> "degC"
      [] name = "FAHRENHEIT" -> "degF"
      [] name = "KELVIN" -> "K"

-----------------------------------------------------------------------------
(* The capability parser: GoveeLifeClimate._init_platform_specific.          *)
(* It works on a record m holding the attributes it reads and writes: the   *)
(* three hvac containers are the class attributes (never rebound, mutated   *)
(* in place), the others are attributes of the instance. m.raised records   *)
(* that an exception left the method; what was written before stays.        *)

Raise(m) == [m EXCEPT !.raised = TRUE]

\* lines 82-93: one option of an on_off capability
on_off_option(m, option) ==
    IF option.name = "on"
    THEN [m EXCEPT
            !.supported_features = @ \cup { "TURN_ON" },
            !.hvac_modes = Append(@, HEAT_COOL),
            !.hvac_modes_mapping = DictSet(@, option.value, HEAT_COOL),
            !.hvac_modes_mapping_set = DictSet(@, HEAT_COOL, option.value)]
    ELSE IF option.name = "off"
    THEN [m EXCEPT
            !.supported_features = @ \cup { "TURN_OFF" },
            !.hvac_modes = Append(@, OFF),
            !.hvac_modes_mapping = DictSet(@, option.value, OFF),
            !.hvac_modes_mapping_set = DictSet(@, OFF, option.value)]
    ELSE m

RECURSIVE on_off_options(_, _, _)
on_off_options(m, options, i) ==
    IF i > Len(options) THEN m
    ELSE on_off_options(on_off_option(m, options[i]), options, i + 1)

\* lines 97-104: one field of a temperature_setting capability
temperature_field(m, field) ==
    IF field.fieldName = "temperature"
    THEN [m EXCEPT
            !.max_temp = Some(field.range.max),
            !.min_temp = Some(field.range.min),
            !.target_temperature_step = Some(field.range.precision)]
    ELSE IF field.fieldName = "unit"
    THEN IF upper(field.defaultValue) \in UnitNames
         THEN [m EXCEPT !.temperature_unit =
                            Some(UnitOfTemperature(upper(field.defaultValue)))]
         ELSE Raise(m)
    ELSE m

RECURSIVE temperature_fields(_, _, _)
temperature_fields(m, fields, i) ==
    IF i > Len(fields) \/ m.raised THEN m
    ELSE temperature_fields(temperature_field(m, fields[i]), fields, i + 1)

\* lines 111-112: next((f for f in fields if f['fieldName'] == name), None)
RECURSIVE first_field(_, _, _)
first_field(fields, name, i) ==
    IF i > Len(fields) THEN None
    ELSE IF fields[i].fieldName = name THEN Some(fields[i])
    ELSE first_field(fields, name, i + 1)

\* lines 130-135 and 142-147: register one preset
add_preset(m, mode_name, value, mode_value) ==
    [m EXCEPT
        !.preset_modes = Append(@, mode_name),
        !.preset_modes_mapping = DictSet(@, mode_name, value),
        !.preset_modes_mapping_set =
            DictSet(@, mode_name, [workMode |-> value, modeValue |-> mode_value])]

\* line 129: f"{name}-{level_name}"
composite_name(name, level_name) ==
    CASE level_name = "Low" -> "gearMode-Low"
      [] level_name = "Medium" -> "gearMode-Medium"
      [] level_name = "High" -> "gearMode-High"

\* lines 126-135
RECURSIVE gear_levels(_, _, _, _, _)
gear_levels(m, name, value, levels, i) ==
    IF i > Len(levels) THEN m
    ELSE gear_levels(
            add_preset(m, composite_name(name, levels[i].name), value, levels[i].value),
            name, value, levels, i + 1)

\* lines 123-135
RECURSIVE gear_subs(_, _, _, _, _)
gear_subs(m, name, value, subs, i) ==
    IF i > Len(subs) THEN m
    ELSE IF "name" \in DOMAIN subs[i] /\ subs[i].name = "gearMode"
    THEN gear_subs(gear_levels(m, name, value, Get(subs[i], "options", << >>), 1),
                   name, value, subs, i + 1)
    ELSE gear_subs(m, name, value, subs, i + 1)

\* lines 138-141: the last matching modeValue option decides
RECURSIVE default_val(_, _, _, _)
default_val(options, name, i, acc) ==
    IF i > Len(options) THEN acc
    ELSE IF "name" \in DOMAIN options[i] /\ options[i].name = name
    THEN default_val(options, name, i + 1, Get(options[i], "defaultValue", 0))
    ELSE default_val(options, name, i + 1, acc)

\* lines 117-147
RECURSIVE work_options(_, _, _, _)
work_options(m, options, mode_field, i) ==
    IF i > Len(options) THEN m
    ELSE LET name == options[i].name
             value == options[i].value
             subs == Get(mode_field, "options", << >>)
         IN work_options(
                IF name = "gearMode"
                THEN gear_subs(m, name, value, subs, 1)
                ELSE add_preset(m, name, value, default_val(subs, name, 1, 0)),
                options, mode_field, i + 1)

\* the reset without line 109: the reverse map is kept
reset_presets_keep_reverse(m) ==
    [m EXCEPT
        !.supported_features = @ \cup { "PRESET_MODE" },
        !.preset_modes = << >>,
        !.preset_modes_mapping = << >>]

\* lines 106-109: the preset containers are rebound to fresh, empty ones
reset_presets(m) ==
    [m EXCEPT
        !.supported_features = @ \cup { "PRESET_MODE" },
        !.preset_modes = << >>,
        !.preset_modes_mapping = << >>,
        !.preset_modes_mapping_set = << >>]

\* lines 105-149
work_mode_cap(m, cap) ==
    LET r == reset_presets(m) IN
    IF "parameters" \notin DOMAIN cap THEN Raise(r)
    ELSE LET fields == cap.parameters.fields
             work_field == first_field(fields, "workMode", 1)
             mode_field == first_field(fields, "modeValue", 1)
         IN IF work_field = None \/ mode_field = None THEN r
            ELSE work_options(r, Get(work_field[1], "options", << >>), mode_field[1], 1)

\* lines 80-153: one capability descriptor
init_capability(m, cap) ==
    IF "type" \notin DOMAIN cap THEN Raise(m)
    ELSE IF cap.type = "devices.capabilities.on_off"
    THEN IF "parameters" \notin DOMAIN cap THEN Raise(m)
         ELSE on_off_options(m, cap.parameters.options, 1)
    ELSE IF cap.type = "devices.capabilities.temperature_setting"
            /\ "instance" \notin DOMAIN cap
    THEN Raise(m)
    ELSE IF cap.type = "devices.capabilities.temperature_setting"
            /\ cap.instance \in { "targetTemperature", "sliderTemperature" }
    THEN LET t == [m EXCEPT !.supported_features = @ \cup { "TARGET_TEMPERATURE" }]
         IN IF "parameters" \notin DOMAIN cap THEN Raise(t)
            ELSE temperature_fields(t, cap.parameters.fields, 1)
    ELSE IF cap.type = "devices.capabilities.work_mode"
    THEN work_mode_cap(m, cap)
    ELSE IF cap.type = "devices.capabilities.property"
            /\ "instance" \notin DOMAIN cap
    THEN Raise(m)
    ELSE m

\* lines 73-153: the loop over the capability list
RECURSIVE init_platform_specific(_, _, _)
init_platform_specific(m, capabilities, i) ==
    IF i > Len(capabilities) \/ m.raised THEN m
    ELSE init_platform_specific(init_capability(m, capabilities[i]), capabilities, i + 1)

-----------------------------------------------------------------------------
(* Capability descriptors and device configurations the model draws from.  *)

OnOffCap(on_value, off_value) ==
    [type |-> "devices.capabilities.on_off", instance |-> "powerSwitch",
     parameters |-> [options |-> << [name |-> "on", value |-> on_value],
                                    [name |-> "off", value |-> off_value] >>]]

\* an "on" option only, and an option name the parser does not know
OnOnlyCap ==
    [type |-> "devices.capabilities.on_off", instance |-> "powerSwitch",
     parameters |-> [options |-> << [name |-> "on", value |-> 1],
                                    [name |-> "toggle", value |-> 2] >>]]

TemperatureCap(inst, unit) ==
    [type |-> "devices.capabilities.temperature_setting", instance |-> inst,
     parameters |-> [fields |-> <<
        [fieldName |-> "autoStop", defaultValue |-> 0],
        [fieldName |-> "temperature", range |-> [max |-> 30, min |-> 5, precision |-> 1]],
        [fieldName |-> "unit", defaultValue |-> unit] >>]]

\* a two-level gearMode group beside two flat modes
GearWorkModeCap ==
    [type |-> "devices.capabilities.work_mode", instance |-> "workMode",
     parameters |-> [fields |-> <<
        [fieldName |-> "workMode",
         options |-> << [name |-> "gearMode", value |-> 1],
                        [name |-> "Fan", value |-> 9],
                        [name |-> "Auto", value |-> 3] >>],
        [fieldName |-> "modeValue",
         options |-> << [name |-> "gearMode",
                         options |-> << [name |-> "Low", value |-> 1],
                                        [name |-> "Medium", value |-> 2],
                                        [name |-> "High", value |-> 3] >>],
                        [name |-> "Fan"],
                        [name |-> "Auto", defaultValue |-> 22] >>] >>]]

\* a repeated workMode option name, and two presets with one payload
RepeatWorkModeCap ==
    [type |-> "devices.capabilities.work_mode", instance |-> "workMode",
     parameters |-> [fields |-> <<
        [fieldName |-> "workMode",
         options |-> << [name |-> "Boil", value |-> 3],
                        [name |-> "Tea", value |-> 9],
                        [name |-> "Boil", value |-> 9] >>],
        [fieldName |-> "modeValue",
         options |-> << [name |-> "Tea", defaultValue |-> 0] >>] >>]]

\* no modeValue field
PartialWorkModeCap ==
    [type |-> "devices.capabilities.work_mode", instance |-> "workMode",
     parameters |-> [fields |-> <<
        [fieldName |-> "workMode",
         options |-> << [name |-> "Auto", value |-> 3] >>] >>]]

SensorCap ==
    [type |-> "devices.capabilities.property", instance |-> "sensorTemperature"]

UnknownCap ==
    [type |-> "devices.capabilities.toggle", instance |-> "oscillationToggle"]

\* malformed descriptors
NoTypeCap == [instance |-> "powerSwitch"]

NoInstanceCap == [type |-> "devices.capabilities.property"]

NoParametersCap == [type |-> "devices.capabilities.work_mode", instance |-> "workMode"]

Heater(capabilities) == [type |-> "devices.types.heater", capabilities |-> capabilities]

Kettle(capabilities) == [type |-> "devices.types.kettle", capabilities |-> capabilities]

DeviceCfgs == <<
    Heater(<< OnOffCap(1, 0), TemperatureCap("targetTemperature", "Celsius"),
              GearWorkModeCap, SensorCap >>),
    Heater(<< OnOffCap(0, 1), TemperatureCap("sliderTemperature", "fahrenheit") >>),
    Kettle(<< OnOffCap(1, 0), RepeatWorkModeCap, UnknownCap >>),
    Kettle(<< OnOnlyCap, GearWorkModeCap, RepeatWorkModeCap >>),
    Heater(<< GearWorkModeCap, PartialWorkModeCap,
              TemperatureCap("targetTemperature", "C") >>),
    Heater(<< OnOffCap(1, 0), NoTypeCap, GearWorkModeCap >>),
    Heater(<< RepeatWorkModeCap, NoParametersCap >>),
    Heater(<< OnOffCap(2, 3), NoInstanceCap >>),
    Heater(<< >>),
    [type |-> "devices.types.light", capabilities |-> << OnOffCap(1, 0) >>] >>

RECURSIVE SeqsUpTo(_, _)
SeqsUpTo(S, n) ==
    IF n = 0 THEN { << >> }
    ELSE LET shorter == SeqsUpTo(S, n - 1)
         IN shorter \cup { Append(q, x) : q \in shorter, x \in S }

-----------------------------------------------------------------------------
(* Construction of an entity (line 51) and platform setup (lines 33-59).   *)

\* lines 65-70: the class attributes before any instance exists
ClassAttributes ==
    [hvac_modes |-> << >>, hvac_modes_mapping |-> << >>,
     hvac_modes_mapping_set |-> << >>]

\* the attributes a fresh instance reads: the hvac containers are the class's,
\* the preset containers are the class's empty ones until line 107 rebinds them
NewInstance(c) ==
    [hvac_modes |-> c.hvac_modes,
     hvac_modes_mapping |-> c.hvac_modes_mapping,
     hvac_modes_mapping_set |-> c.hvac_modes_mapping_set,
     preset_modes |-> << >>, preset_modes_mapping |-> << >>,
     preset_modes_mapping_set |-> << >>,
     supported_features |-> { },
     max_temp |-> None, min_temp |-> None, target_temperature_step |-> None,
     temperature_unit |-> None,
     raised |-> FALSE]

\* what the run left in the class attributes
ClassPart(m) ==
    [hvac_modes |-> m.hvac_modes, hvac_modes_mapping |-> m.hvac_modes_mapping,
     hvac_modes_mapping_set |-> m.hvac_modes_mapping_set]

\* what the run left in the instance
InstancePart(m, device) ==
    [device |-> device,
     preset_modes |-> m.preset_modes,
     preset_modes_mapping |-> m.preset_modes_mapping,
     preset_modes_mapping_set |-> m.preset_modes_mapping_set,
     supported_features |-> m.supported_features,
     max_temp |-> m.max_temp, min_temp |-> m.min_temp,
     target_temperature_step |-> m.target_temperature_step,
     temperature_unit |-> m.temperature_unit]

\* the ModeModel an entity shows: its own attributes and the class's
ModeModel(e, c) ==
    [hvac_modes |-> c.hvac_modes,
     hvac_forward_map |-> c.hvac_modes_mapping,
     hvac_reverse_map |-> c.hvac_modes_mapping_set,
     preset_modes |-> e.preset_modes,
     preset_forward_map |-> e.preset_modes_mapping,
     preset_reverse_map |-> e.preset_modes_mapping_set,
     supported_features |-> e.supported_features,
     max_temp |-> e.max_temp, min_temp |-> e.min_temp,
     target_temperature_step |-> e.target_temperature_step,
     temperature_unit |-> e.temperature_unit]

\* The inherited initializer (GoveeLifePlatformEntity.__init__) runs the parser
\* once on the device's capability list. When the parser raises, the
\* initializer either lets the exception reach its caller or contains it and
\* leaves the instance as far as the parser got.
PlatformEntityInit(c, device_cfg, contained) ==
    LET m == init_platform_specific(
                NewInstance(c), Get(device_cfg, "capabilities", << >>), 1)
    IN [m |-> m, propagated |-> m.raised /\ ~contained]

Init ==
    /\ store_ok \in BOOLEAN
    /\ api_devices \in
          IF store_ok THEN SeqsUpTo(1..Len(DeviceCfgs), MaxDevices) ELSE { << >> }
    /\ coordinators \in SUBSET (1..Len(api_devices))
    /\ pc = "start"
    /\ idx = 0
    /\ entities = << >>
    /\ added = << >>
    /\ cls = ClassAttributes
    /\ builds = << >>
    /\ snapshot = [targetTemperature |-> None, workMode |-> None,
                   sliderTemperature |-> None]
    /\ call = [status |-> "idle"]
    /\ requests = << >>
    /\ notified = 0
    /\ observed = None

\* lines 36-43
GetDevices ==
    /\ pc = "start"
    /\ pc' = IF store_ok THEN "loop" ELSE "aborted"
    /\ idx' = 1
    /\ UNCHANGED << store_ok, api_devices, coordinators, entities, added, cls,
                    builds, ops_vars >>

\* lines 45-56: one iteration of the loop, up to the yield of line 53
SetupDevice ==
    /\ pc = "loop"
    /\ idx <= Len(api_devices)
    /\ LET device_cfg == DeviceCfgs[api_devices[idx]] IN
       IF device_cfg.type \notin PLATFORM_DEVICE_TYPES
       THEN /\ idx' = idx + 1
            /\ UNCHANGED << pc, entities, cls, builds >>
       ELSE IF idx \notin coordinators
       THEN /\ pc' = "aborted"
            /\ UNCHANGED << idx, entities, cls, builds >>
       ELSE \E contained \in BOOLEAN :
              LET r == PlatformEntityInit(cls, device_cfg, contained)
                  e == InstancePart(r.m, idx)
                  c == ClassPart(r.m)
              IN /\ cls' = c
                 /\ builds' = Append(builds,
                                 [device |-> idx, raised |-> r.m.raised,
                                  model |-> ModeModel(e, c)])
                 /\ IF r.propagated
                    THEN /\ pc' = "aborted"
                         /\ UNCHANGED << idx, entities >>
                    ELSE /\ entities' = Append(entities, e)
                         /\ idx' = idx + 1
                         /\ pc' = pc
    /\ UNCHANGED << store_ok, api_devices, coordinators, added, ops_vars >>

\* lines 58-59
AddEntities ==
    /\ pc = "loop"
    /\ idx > Len(api_devices)
    /\ added' = IF entities # << >> THEN Append(added, entities) ELSE added
    /\ pc' = "done"
    /\ UNCHANGED << store_ok, api_devices, coordinators, idx, entities, cls,
                    builds, ops_vars >>

Next == GetDevices \/ SetupDevice \/ AddEntities

Spec == Init /\ [][Next]_vars

-----------------------------------------------------------------------------
(* The state projector: read properties (pure in the snapshot and the       *)
(* entity) and write operations. A write operation runs up to its await of  *)
(* async_GoveeAPI_ControlDevice, and resumes when the acknowledgement       *)
(* arrives.                                                                 *)

\* GoveeAPI_GetCachedStateValue(..., capability, instance)
GetCachedStateValue(snap, instance) == snap[instance]

\* bool(value) of an optional dict
Truthy(value) == value # None /\ DOMAIN value[1] # { }

\* lines 192-196: the first entry, in dict order, with both fields equal
RECURSIVE find_preset(_, _, _, _)
find_preset(mapping_set, work_mode, mode_value, i) ==
    IF i > Len(mapping_set) THEN None
    ELSE IF Some(mapping_set[i].v.workMode) = work_mode
            /\ mapping_set[i].v.modeValue = mode_value
    THEN Some(mapping_set[i].k)
    ELSE find_preset(mapping_set, work_mode, mode_value, i + 1)

\* the scan comparing workMode alone
RECURSIVE find_preset_by_work_mode(_, _, _)
find_preset_by_work_mode(mapping_set, work_mode, i) ==
    IF i > Len(mapping_set) THEN None
    ELSE IF Some(mapping_set[i].v.workMode) = work_mode THEN Some(mapping_set[i].k)
    ELSE find_preset_by_work_mode(mapping_set, work_mode, i + 1)

preset_mode_ignoring_level(e, snap) ==
    LET value == GetCachedStateValue(snap, "workMode") IN
    IF ~Truthy(value) THEN None
    ELSE find_preset_by_work_mode(
            e.preset_modes_mapping_set,
            IF "workMode" \in DOMAIN value[1] THEN Some(value[1].workMode) ELSE None,
            1)

\* lines 182-196
preset_mode(e, snap) ==
    LET value == GetCachedStateValue(snap, "workMode") IN
    IF ~Truthy(value) THEN None
    ELSE LET work_mode == IF "workMode" \in DOMAIN value[1]
                          THEN Some(value[1].workMode) ELSE None
             mode_value == Get(value[1], "modeValue", 0)
         IN find_preset(e.preset_modes_mapping_set, work_mode, mode_value, 1)

\* lines 237-243
slider_target(snap) ==
    LET value == GetCachedStateValue(snap, "sliderTemperature") IN
    IF value = None THEN None
    ELSE IF "targetTemperature" \notin DOMAIN value[1] THEN None
    ELSE Some(float(value[1].targetTemperature))

\* the slider reading taking precedence over the preset
target_temperature_slider_first(e, snap) ==
    LET pm == preset_mode(e, snap) IN
    IF slider_target(snap) # None THEN slider_target(snap)
    ELSE IF pm # None /\ DictGet(e.preset_modes_mapping_set, pm[1]).modeValue # 0
    THEN Some(float(DictGet(e.preset_modes_mapping_set, pm[1]).modeValue))
    ELSE None

\* lines 226-243
target_temperature(e, snap) ==
    LET pm == preset_mode(e, snap) IN
    IF pm # None /\ pm[1] # "" /\ DictHas(e.preset_modes_mapping_set, pm[1])
       /\ DictGet(e.preset_modes_mapping_set, pm[1]).modeValue # 0
    THEN Some(float(DictGet(e.preset_modes_mapping_set, pm[1]).modeValue))
    ELSE slider_target(snap)

\* A write operation up to its first suspension: the commands handed to
\* async_GoveeAPI_ControlDevice and where the coroutine stands
Awaiting(command) == [status |-> "awaiting", requests |-> << command >>]

Returned == [status |-> "returned", requests |-> << >>]

Raised == [status |-> "raised", requests |-> << >>]

\* lines 164-171
async_set_hvac_mode(c, hvac_mode) ==
    IF ~DictHas(c.hvac_modes_mapping_set, hvac_mode) THEN Raised
    ELSE Awaiting([type |-> "devices.capabilities.on_off",
                   instance |-> "powerSwitch",
                   value |-> DictGet(c.hvac_modes_mapping_set, hvac_mode)])

\* lines 174-176
async_turn_off(c) == async_set_hvac_mode(c, OFF)

\* lines 178-180
async_turn_on(c) == async_set_hvac_mode(c, HEAT_COOL)

\* the lookup by subscript instead of .get: an unknown name raises KeyError
async_set_preset_mode_subscript(e, preset) ==
    IF ~DictHas(e.preset_modes_mapping_set, preset) THEN Raised
    ELSE Awaiting([type |-> "devices.capabilities.work_mode",
                   instance |-> "workMode",
                   value |-> DictGet(e.preset_modes_mapping_set, preset)])

\* lines 198-210
async_set_preset_mode(e, preset) ==
    LET preset_value == IF DictHas(e.preset_modes_mapping_set, preset)
                        THEN Some(DictGet(e.preset_modes_mapping_set, preset))
                        ELSE None
    IN IF ~Truthy(preset_value) THEN Returned
       ELSE Awaiting([type |-> "devices.capabilities.work_mode",
                      instance |-> "workMode",
                      value |-> preset_value[1]])

\* lines 245-257: value.get on None raises AttributeError
async_set_temperature(snap, temperature) ==
    LET value == GetCachedStateValue(snap, "targetTemperature") IN
    IF value = None THEN Raised
    ELSE Awaiting([type |-> "devices.capabilities.temperature_setting",
                   instance |-> "targetTemperature",
                   value |-> [temperature |-> temperature,
                              unit |-> Get(value[1], "unit", "Celsius")]])

\* snapshot readings the model draws from
TargetReadings ==
    { None, Some([unit |-> "Celsius", temperature |-> 20]),
      Some([unit |-> "Fahrenheit", temperature |-> 68]),
      Some([temperature |-> 20]) }

WorkModeReadings ==
    { None, Some([workMode |-> 9]) }
    \cup { Some([workMode |-> w, modeValue |-> v]) : w \in { 1, 3, 9 }, v \in { 0, 1, 2, 3, 22 } }

SliderReadings ==
    { None, Some([targetTemperature |-> 20, unit |-> "Celsius"]),
      Some([unit |-> "Celsius"]) }

Readings(instance) ==
    CASE instance = "targetTemperature" -> TargetReadings
      [] instance = "workMode" -> WorkModeReadings
      [] instance = "sliderTemperature" -> SliderReadings

Snapshots ==
    [targetTemperature : TargetReadings, workMode : WorkModeReadings,
     sliderTemperature : SliderReadings]

PresetNames ==
    { "gearMode-Low", "gearMode-Medium", "gearMode-High", "Fan", "Auto",
      "Boil", "Tea", "Eco" }

RequestedTemperatures == 20..(20 + MaxTemperature)

\* the entity the host operates
entity == entities[1]

\* one climate device set up without error, a cached state, no call running
OpsInit ==
    /\ store_ok = TRUE
    /\ \E d \in 1..Len(DeviceCfgs) :
          LET r == PlatformEntityInit(ClassAttributes, DeviceCfgs[d], FALSE)
              e == InstancePart(r.m, 1)
              c == ClassPart(r.m)
          IN /\ DeviceCfgs[d].type \in PLATFORM_DEVICE_TYPES
             /\ ~r.m.raised
             /\ api_devices = << d >>
             /\ entities = << e >>
             /\ added = << << e >> >>
             /\ cls = c
             /\ builds = << [device |-> 1, raised |-> FALSE, model |-> ModeModel(e, c)] >>
    /\ coordinators = { 1 }
    /\ pc = "done"
    /\ idx = 2
    /\ snapshot \in Snapshots
    /\ call = [status |-> "idle"]
    /\ requests = << >>
    /\ notified = 0
    /\ observed = None

Idle == call.status # "awaiting"

Begin(op, arg, r) ==
    /\ call' = [op |-> op, arg |-> arg, status |-> r.status,
                read |-> snapshot.targetTemperature]
    /\ requests' = r.requests
    /\ notified' = 0
    /\ UNCHANGED << setup_vars, snapshot, observed >>

SetHvacMode ==
    /\ Idle
    /\ \E hvac_mode \in { OFF, HEAT_COOL } :
          Begin("set_hvac_mode", Some(hvac_mode), async_set_hvac_mode(cls, hvac_mode))

TurnOff ==
    /\ Idle
    /\ Begin("turn_off", Some(OFF), async_turn_off(cls))

TurnOn ==
    /\ Idle
    /\ Begin("turn_on", Some(HEAT_COOL), async_turn_on(cls))

SetPresetMode ==
    /\ Idle
    /\ \E preset \in PresetNames :
          Begin("set_preset_mode", Some(preset), async_set_preset_mode(entity, preset))

SetTemperature ==
    /\ Idle
    /\ \E temperature \in RequestedTemperatures :
          Begin("set_temperature", Some(temperature),
                async_set_temperature(snapshot, temperature))

\* lines 171-172, 210-211, 257-258: the await returns, the state is written
\* when the acknowledgement is true
ControlDeviceAck ==
    /\ call.status = "awaiting"
    /\ \E ack \in BOOLEAN :
          /\ call' = [op |-> call.op, arg |-> call.arg, status |-> "returned",
                      read |-> call.read, ack |-> ack]
          /\ notified' = IF ack THEN notified + 1 ELSE notified
    /\ UNCHANGED << setup_vars, snapshot, requests, observed >>

\* the coordinator replaces one cached reading
Refresh ==
    /\ \E instance \in DOMAIN snapshot :
          \E reading \in Readings(instance) :
             /\ reading # snapshot[instance]
             /\ snapshot' = [snapshot EXCEPT ![instance] = reading]
    /\ UNCHANGED << setup_vars, call, requests, notified, observed >>

\* the host reads the entity's properties against the current cached state
ReadProperties ==
    /\ observed' = Some([snapshot |-> snapshot,
                         preset_mode |-> preset_mode(entity, snapshot),
                         target_temperature |-> target_temperature(entity, snapshot)])
    /\ UNCHANGED << setup_vars, snapshot, call, requests, notified >>

OpsNext ==
    \/ SetHvacMode
    \/ TurnOff
    \/ TurnOn
    \/ SetPresetMode
    \/ SetTemperature
    \/ ControlDeviceAck
    \/ Refresh

OpsSpec == OpsInit /\ [][OpsNext]_vars

ReadNext == Refresh \/ ReadProperties

ReadSpec == OpsInit /\ [][ReadNext]_vars

-----------------------------------------------------------------------------
(* Properties *)

Finished == pc \in { "done", "aborted" }

IsClimate(i) == DeviceCfgs[api_devices[i]].type \in PLATFORM_DEVICE_TYPES

Capabilities(i) == Get(DeviceCfgs[api_devices[i]], "capabilities", << >>)

BuildFailed(i) == \E k \in 1..Len(builds) : builds[k].device = i /\ builds[k].raised

AddedDevices ==
    UNION { { added[k][j].device : j \in 1..Len(added[k]) } : k \in 1..Len(added) }

NoDuplicates(q) == \A i, j \in 1..Len(q) : q[i] = q[j] => i = j

VendorValues == 0..3

IsOnOff(cap) == "type" \in DOMAIN cap /\ cap.type = "devices.capabilities.on_off"

\* the device has one on_off descriptor, and it declares on -> a, off -> b
DeclaresOnOff(i, a, b) ==
    LET caps == Capabilities(i)
        at == { n \in 1..Len(caps) : IsOnOff(caps[n]) }
    IN /\ Cardinality(at) = 1
       /\ \A n \in at :
             /\ "parameters" \in DOMAIN caps[n]
             /\ caps[n].parameters.options
                  = << [name |-> "on", value |-> a], [name |-> "off", value |-> b] >>

ExactInverse(forward, reverse) ==
    /\ \A i \in 1..Len(forward) :
          /\ DictHas(reverse, forward[i].v)
          /\ DictGet(reverse, forward[i].v) = forward[i].k
    /\ \A i \in 1..Len(reverse) :
          /\ DictHas(forward, reverse[i].v)
          /\ DictGet(forward, reverse[i].v) = reverse[i].k
    /\ Len(forward) = Len(reverse)

\* C1: with the device list obtained, a device whose setup fails does not keep
\* the other climate devices from being constructed and handed to
\* add_entities: every climate device that has a coordinator and whose own
\* ModeModel build did not fail is among the added entities once setup ends.
C1_OtherDevicesStillAdded ==
    (Finished /\ store_ok) =>
        \A i \in 1..Len(api_devices) :
            (IsClimate(i) /\ i \in coordinators /\ ~BuildFailed(i))
                => i \in AddedDevices

\* C2: after any sequence of builds, for every built device whose on_off
\* descriptor declares on -> a and off -> b, the forward map sends a to
\* HEAT_COOL and b to OFF, and the reverse map is its exact inverse.
C2_HvacMapsInverse ==
    \A k \in 1..Len(builds) : \A a, b \in VendorValues :
        DeclaresOnOff(builds[k].device, a, b) =>
            /\ DictHas(cls.hvac_modes_mapping, a)
            /\ DictGet(cls.hvac_modes_mapping, a) = HEAT_COOL
            /\ DictHas(cls.hvac_modes_mapping, b)
            /\ DictGet(cls.hvac_modes_mapping, b) = OFF
            /\ ExactInverse(cls.hvac_modes_mapping, cls.hvac_modes_mapping_set)

\* C3: in every reachable state hvac_modes holds only OFF and HEAT_COOL, each
\* at most once.
C3_HvacModesNoDuplicates ==
    /\ SeqSet(cls.hvac_modes) \subseteq { OFF, HEAT_COOL }
    /\ NoDuplicates(cls.hvac_modes)

\* C4: two runs of the parser on the same capability list yield equal
\* ModeModels.
C4_ParserIdempotent ==
    \A j, k \in 1..Len(builds) :
        ( /\ j < k
          /\ api_devices[builds[j].device] = api_devices[builds[k].device]
          /\ ~builds[j].raised /\ ~builds[k].raised )
        => builds[j].model = builds[k].model

\* C10: for every built ModeModel the names of preset_modes are exactly the
\* keys of preset_reverse_map.
C10_PresetNamesAreReverseKeys ==
    /\ \A k \in 1..Len(builds) :
          SeqSet(builds[k].model.preset_modes)
            = DictKeys(builds[k].model.preset_reverse_map)
    /\ \A i \in 1..Len(entities) :
          SeqSet(entities[i].preset_modes) = DictKeys(entities[i].preset_modes_mapping_set)

\* a device with two work_mode descriptors, the last one repeating a name
C10_Witness ==
    \E k \in 1..Len(builds) :
        LET caps == Capabilities(builds[k].device)
            pm == builds[k].model.preset_modes
        IN /\ Cardinality({ n \in 1..Len(caps) :
                    "type" \in DOMAIN caps[n]
                    /\ caps[n].type = "devices.capabilities.work_mode" }) = 2
           /\ ~NoDuplicates(pm)
           /\ Cardinality(DictKeys(builds[k].model.preset_reverse_map)) = 2

-----------------------------------------------------------------------------
(* Properties of the write and read paths (OpsSpec) *)

Called == call.status # "idle"

KnownPreset(name) == DictHas(entity.preset_modes_mapping_set, name)

\* the operation was called with an argument the entity advertises
WithinContract ==
    /\ call.op \in { "set_hvac_mode", "turn_on", "turn_off" }
         => call.arg[1] \in SeqSet(cls.hvac_modes)
    /\ call.op = "set_preset_mode" => KnownPreset(call.arg[1])

\* C5: set_temperature does not fail when the targetTemperature reading is
\* absent; it sends one temperature_setting/targetTemperature command whose
\* unit is "Celsius" when the reading is absent and the reading's unit
\* otherwise.
C5_SetTemperatureDefaultsUnit ==
    (Called /\ call.op = "set_temperature") =>
        /\ call.status # "raised"
        /\ requests =
             << [type |-> "devices.capabilities.temperature_setting",
                 instance |-> "targetTemperature",
                 value |-> [temperature |-> call.arg[1],
                            unit |-> IF call.read = None
                                     THEN "Celsius"
                                     ELSE Get(call.read[1], "unit", "Celsius")]] >>

\* C6: every write operation issues exactly one ControlDevice request; the
\* state-write notification fires once if the request was acknowledged with
\* true, not at all if with false, and never before the acknowledgement.
C6_OneRequestNotifyIffAcked ==
    (Called /\ WithinContract) =>
        /\ call.status # "raised"
        /\ Len(requests) = 1
        /\ call.status = "awaiting" => notified = 0
        /\ call.status = "returned" => notified = (IF call.ack THEN 1 ELSE 0)

\* C7: set_preset_mode with a name outside preset_reverse_map sends nothing,
\* notifies nothing, leaves the ModeModel as built and returns normally; with
\* a known name the one command sent carries preset_reverse_map[name].
C7_UnknownPresetIsNoOp ==
    (Called /\ call.op = "set_preset_mode") =>
        IF KnownPreset(call.arg[1])
        THEN /\ call.status \in { "awaiting", "returned" }
             /\ requests =
                  << [type |-> "devices.capabilities.work_mode",
                      instance |-> "workMode",
                      value |-> DictGet(entity.preset_modes_mapping_set, call.arg[1])] >>
        ELSE /\ call.status = "returned"
             /\ requests = << >>
             /\ notified = 0
             /\ ModeModel(entity, cls) = builds[1].model

\* an unknown name asked of an entity that has presets
C7_Witness ==
    /\ Called
    /\ call.op = "set_preset_mode"
    /\ ~KnownPreset(call.arg[1])
    /\ entity.preset_modes # << >>
    /\ call.status = "returned"

ReversePayload(name) == DictGet(entity.preset_modes_mapping_set, name)

\* the first name of preset_modes whose payload is the given one
RECURSIVE FirstRegistered(_, _)
FirstRegistered(payload, i) ==
    IF ReversePayload(entity.preset_modes[i]) = payload
    THEN entity.preset_modes[i]
    ELSE FirstRegistered(payload, i + 1)

\* C8: a read of preset_mode() against a work_mode reading that equals
\* preset_reverse_map[p] for a preset name p returns p, or, when other presets
\* have the same payload, the first registered of them.
C8_PresetRoundTrip ==
    observed # None =>
        \A i \in 1..Len(entity.preset_modes) :
            LET p == entity.preset_modes[i]
                same == { n \in SeqSet(entity.preset_modes) :
                            ReversePayload(n) = ReversePayload(p) }
            IN observed[1].snapshot.workMode = Some(ReversePayload(p)) =>
                 /\ same = { p } => observed[1].preset_mode = Some(p)
                 /\ observed[1].preset_mode
                      = Some(FirstRegistered(ReversePayload(p), 1))

\* the reading was the payload of Tea, which Boil, registered first, shares
C8_Witness ==
    /\ observed # None
    /\ KnownPreset("Tea")
    /\ KnownPreset("Boil")
    /\ observed[1].snapshot.workMode = Some(ReversePayload("Tea"))
    /\ observed[1].preset_mode = Some("Boil")

=============================================================================
